---- MODULE Spec2Model ----
(***************************************************************************)
(* A model of the bikepacking-blog data pipeline:                          *)
(*   - StravaClient (src/src/lib/strava-client.ts): token refresh,         *)
(*     request with one retry on HTTP 401, paginated getAllActivitiesAfter *)
(*   - getJourneyActivities, StravaClient variant (src/unnamed/part_000)   *)
(*   - getJourneyActivities / fetchAllActivities, ActivitiesApi variant    *)
(*     (src/src/app/_actions/strava.ts)                                    *)
(*   - the polyline codec (src/unnamed/part_003)                           *)
(*   - the placeholder decodePolyline (src/src/lib/polyline.ts)            *)
(*   - the activity processor, both variants of processActivities, and     *)
(*     calculateBounds (src/unnamed/part_004)                              *)
(*   - the stats effect of JourneyMap                                      *)
(*     (src/src/app/_components/journey-map.tsx, src/unnamed/part_002)     *)
(* Every network call is a suspension point: a request in flight is a      *)
(* value of rpc, and its response is an action of the environment.         *)
(*                                                                         *)
(* Times are integers in milliseconds counted from 2023-01-01T00:00:00Z.   *)
(* A JavaScript number that may be NaN is a record [valid, v].             *)
(* Strings that the code inspects character by character are sequences of  *)
(* character codes.                                                        *)
(***************************************************************************)
EXTENDS Integers, Sequences, FiniteSets, TLC

VARIABLES
    creds,          \* the three environment credentials are all present
    stravaAccessToken, \* STRAVA_ACCESS_TOKEN is set (ActivitiesApi variant)
    startDate,      \* argument of getJourneyActivities (a date string)
    feed,           \* the provider's activity history, in the order it serves it
    accessToken,    \* StravaClient.accessToken (Null or a token)
    nextTok,        \* the next token the OAuth server will issue
    rpc,            \* per caller: position inside getActivities/request
    params,         \* per caller: the {per_page, page} of the request
    hdr,            \* per caller: the bearer token of the GET in flight
    ret,            \* per caller: what request() returned or threw
    trace,          \* per caller: network events of the current call
    tok0,           \* per caller: accessToken when the current call began
    calls,          \* per caller: getActivities calls made directly
    jpc,            \* position inside getJourneyActivities
    after,          \* local of getJourneyActivities
    page,           \* local of getAllActivitiesAfter / fetchAllActivities
    allActivities,  \* local of getAllActivitiesAfter / fetchAllActivities
    requests,       \* page requests issued by the pipeline
    result,         \* what getJourneyActivities returned
    cin,            \* codec: what the run started from ("points" or "string")
    cpc,            \* codec: position of the run
    points,         \* codec: argument of encodePolyline
    encoded,        \* codec: a polyline string
    decoded,        \* codec: result of decodePolyline
    placeholder,    \* result of the decodePolyline of src/lib/polyline.ts
    decoder,        \* which decodePolyline './polyline' resolves to
    variant,        \* which processActivities the component imports
    mapActivities,  \* JourneyMap: the activities prop
    journeyData,    \* JourneyMap: the features given to setJourneyData
    bounds,         \* JourneyMap: what calculateBounds returned to fitBounds
    stats,          \* JourneyMap: the stats state object
    effects         \* JourneyMap: runs of the stats effect so far

vars == <<creds, stravaAccessToken, startDate, feed, accessToken, nextTok, rpc,
          params, hdr, ret, trace, tok0, calls, jpc, after, page, allActivities,
          requests, result, cin, cpc, points, encoded, decoded, placeholder,
          decoder, variant, mapActivities, journeyData, bounds, stats, effects>>

clientVars == <<accessToken, nextTok, rpc, params, hdr, ret, trace, tok0>>
journeyVars == <<jpc, after, page, allActivities, requests, result>>
envVars == <<creds, stravaAccessToken, startDate, feed>>
codecVars == <<cin, cpc, points, encoded, decoded>>
mapVars == <<placeholder, decoder, variant, mapActivities, journeyData, bounds,
             stats, effects>>
\* what a network response leaves alone, besides the client's own fields
callerVars == <<envVars, mapVars, calls, journeyVars, codecVars>>

----------------------------------------------------------------------------
(* Bounds of the model *)

MaxSegs == 3        \* segments a provider history is made of
NProcs == 2         \* concurrent callers of one client instance
MaxCalls == 2       \* direct getActivities calls per caller
MaxActs == 3        \* activities in a list given to the processor
MaxStatActs == 2    \* activities in a list given to the JourneyMap component
MaxEffects == 2     \* runs of the stats effect
MaxPts == 3         \* points of a path given to encodePolyline
Resolution == 10    \* input coordinates are given in 1/Resolution of 10^-5 degree

(* Program constants *)

PerPage == 200      \* const perPage = 200
Null == 0           \* accessToken: string | null = null

Procs == 1..NProcs
JourneyProcs == {1}

Min(a, b) == IF a <= b THEN a ELSE b

----------------------------------------------------------------------------
(* Dates *)

NaN == [valid |-> FALSE, v |-> 0]
Num(n) == [valid |-> TRUE, v |-> n]

\* new Date(s).getTime(): milliseconds, NaN for a missing or unparsable string
GetTime(s) == IF s.valid THEN Num(s.v) ELSE NaN

\* Math.floor(new Date(startDate).getTime() / 1000)
AfterOf(s) ==
    LET t == GetTime(s) IN IF t.valid THEN Num(t.v \div 1000) ELSE NaN

\* new Date(start_date || '').getTime() / 1000 >= after
\* (t / 1000 >= a is t >= 1000 * a; any comparison with NaN is false)
ActivityTimeGe(start_date, a) ==
    LET t == GetTime(start_date) IN t.valid /\ a.valid /\ t.v >= 1000 * a.v

\* new Date(start_date || '').getTime() / 1000 < after
ActivityTimeLt(start_date, a) ==
    LET t == GetTime(start_date) IN t.valid /\ a.valid /\ t.v < 1000 * a.v

----------------------------------------------------------------------------
(* Activities *)

\* 'mock_polyline_data' as character codes
MockPolyline ==
    <<109, 111, 99, 107, 95, 112, 111, 108, 121, 108, 105, 110, 101, 95,
      100, 97, 116, 97>>

Activity(id, name, date, distance, type, polyline) ==
    [id |-> id, name |-> name, start_date |-> date, distance |-> distance,
     type |-> type, summary_polyline |-> polyline]

mockActivities ==
    << Activity(1, "Morning Run", Num(374400000), 5000, "Run", MockPolyline),
       Activity(2, "Evening Ride", Num(583200000), 15000, "Ride", MockPolyline),
       Activity(3, "Weekend Hike", Num(1159200000), 8000, "Hike", MockPolyline) >>

getMockActivities(sd) == [activities |-> mockActivities, startDate |-> sd]

----------------------------------------------------------------------------
(* The provider: a finite history served in pages *)

\* start dates given to getJourneyActivities: 1.5 s after the epoch of the
\* model, and an unparsable string
StartDates == { Num(1500), NaN }

\* kinds of activity a history is made of: a type and a start date
Templates ==
    { [type |-> "Ride", start_date |-> Num(5000)],
      [type |-> "Run",  start_date |-> Num(5000)],
      [type |-> "Ride", start_date |-> Num(0 - 5000)] }

SegLens == { 50, PerPage }
Segs == SegLens \X Templates
SegSeqs == UNION { [1..k -> Segs] : k \in 0..MaxSegs }

RECURSIVE Flatten(_)
Flatten(ss) ==
    IF ss = <<>> THEN <<>>
    ELSE [i \in 1..Head(ss)[1] |-> Head(ss)[2]] \o Flatten(Tail(ss))

BuildFeed(ss) ==
    LET f == Flatten(ss)
    IN [i \in 1..Len(f) |->
          Activity(i, "activity", f[i].start_date, 1000, f[i].type, <<>>)]

\* the page the provider serves for {per_page, page}
ServePage(f, prm) ==
    SubSeq(f, (prm.page - 1) * prm.per_page + 1,
              Min(prm.page * prm.per_page, Len(f)))

----------------------------------------------------------------------------
(* StravaClient.getAccessToken and StravaClient.request *)

Idle == [kind |-> "none", data |-> <<>>]

InFlightRefresh(p) == rpc[p] \in {"refresh0", "refresh1"}
InFlightGet(p) == rpc[p] \in {"get1", "get2"}

Count(s, e) == Cardinality({i \in 1..Len(s) : s[i] = e})
Gets(p) == Count(trace[p], "get")
Posts(p) == Count(trace[p], "post")

\* RequestEnter without the test of accessToken: the GET is sent at once
RequestEnterNoCheck(p, prm) ==
    /\ params' = [params EXCEPT ![p] = prm]
    /\ tok0' = [tok0 EXCEPT ![p] = accessToken]
    /\ ret' = [ret EXCEPT ![p] = Idle]
    /\ rpc' = [rpc EXCEPT ![p] = "get1"]
    /\ trace' = [trace EXCEPT ![p] = <<"get">>]
    /\ hdr' = [hdr EXCEPT ![p] = accessToken]

\* request(), from its entry to its first await: with no token held it starts
\* a refresh, otherwise it sends the GET
RequestEnter(p, prm) ==
    /\ params' = [params EXCEPT ![p] = prm]
    /\ tok0' = [tok0 EXCEPT ![p] = accessToken]
    /\ ret' = [ret EXCEPT ![p] = Idle]
    /\ IF accessToken = Null
       THEN /\ rpc' = [rpc EXCEPT ![p] = "refresh0"]
            /\ trace' = [trace EXCEPT ![p] = <<"post">>]
            /\ hdr' = hdr
       ELSE /\ rpc' = [rpc EXCEPT ![p] = "get1"]
            /\ trace' = [trace EXCEPT ![p] = <<"get">>]
            /\ hdr' = [hdr EXCEPT ![p] = accessToken]

\* getActivities(perPage, page)
getActivities(p, perPage, pg) ==
    RequestEnter(p, [per_page |-> perPage, page |-> pg])

\* the token exchange answers 2xx: the token is stored and the GET is sent
RefreshOk(p) ==
    /\ InFlightRefresh(p)
    /\ accessToken' = nextTok
    /\ nextTok' = nextTok + 1
    /\ rpc' = [rpc EXCEPT ![p] = IF rpc[p] = "refresh0" THEN "get1" ELSE "get2"]
    /\ hdr' = [hdr EXCEPT ![p] = nextTok]
    /\ trace' = [trace EXCEPT ![p] = @ \o <<"post_ok", "get">>]
    /\ UNCHANGED <<callerVars, params, ret, tok0>>

\* RefreshFail going on to the GET with the token it holds
RefreshFailIgnored(p) ==
    /\ InFlightRefresh(p)
    /\ rpc' = [rpc EXCEPT ![p] = "get2"]
    /\ hdr' = [hdr EXCEPT ![p] = accessToken]
    /\ trace' = [trace EXCEPT ![p] = @ \o <<"post_fail", "get">>]
    /\ UNCHANGED <<callerVars, accessToken, nextTok, params, ret, tok0>>

\* the token exchange fails: Error('Failed to authenticate with Strava')
RefreshFail(p) ==
    /\ InFlightRefresh(p)
    /\ rpc' = [rpc EXCEPT ![p] = "returned"]
    /\ ret' = [ret EXCEPT ![p] = [kind |-> "auth_error", data |-> <<>>]]
    /\ trace' = [trace EXCEPT ![p] = @ \o <<"post_fail">>]
    /\ UNCHANGED <<callerVars, accessToken, nextTok, params, hdr, tok0>>

\* a GET answers 200: request returns response.data
Get200(p) ==
    /\ InFlightGet(p)
    /\ rpc' = [rpc EXCEPT ![p] = "returned"]
    /\ ret' = [ret EXCEPT ![p] = [kind |-> "ok", data |-> ServePage(feed, params[p])]]
    /\ trace' = [trace EXCEPT ![p] = @ \o <<"r200">>]
    /\ UNCHANGED <<callerVars, accessToken, nextTok, params, hdr, tok0>>

\* Get401First with the refresh left out: the GET is retried at once
Get401FirstNoRefresh(p) ==
    /\ rpc[p] = "get1"
    /\ rpc' = [rpc EXCEPT ![p] = "get2"]
    /\ trace' = [trace EXCEPT ![p] = @ \o <<"r401", "get">>]
    /\ UNCHANGED <<callerVars, accessToken, nextTok, params, hdr, ret, tok0>>

\* the first GET answers 401: refresh, then retry
Get401First(p) ==
    /\ rpc[p] = "get1"
    /\ rpc' = [rpc EXCEPT ![p] = "refresh1"]
    /\ trace' = [trace EXCEPT ![p] = @ \o <<"r401", "post">>]
    /\ UNCHANGED <<callerVars, accessToken, nextTok, params, hdr, ret, tok0>>

\* Get401Retry refreshing and retrying again instead of giving up
Get401RetryAgain(p) ==
    /\ rpc[p] = "get2"
    /\ rpc' = [rpc EXCEPT ![p] = "refresh1"]
    /\ trace' = [trace EXCEPT ![p] = @ \o <<"r401", "post">>]
    /\ UNCHANGED <<callerVars, accessToken, nextTok, params, hdr, ret, tok0>>

\* the retried GET answers 401: the error leaves request()
Get401Retry(p) ==
    /\ rpc[p] = "get2"
    /\ rpc' = [rpc EXCEPT ![p] = "returned"]
    /\ ret' = [ret EXCEPT ![p] = [kind |-> "http_401", data |-> <<>>]]
    /\ trace' = [trace EXCEPT ![p] = @ \o <<"r401">>]
    /\ UNCHANGED <<callerVars, accessToken, nextTok, params, hdr, tok0>>

\* GetError treating every failure of the first GET as a 401
GetErrorRefresh(p) ==
    /\ InFlightGet(p)
    /\ IF rpc[p] = "get1"
       THEN /\ rpc' = [rpc EXCEPT ![p] = "refresh1"]
            /\ trace' = [trace EXCEPT ![p] = @ \o <<"rerr", "post">>]
            /\ ret' = ret
       ELSE /\ rpc' = [rpc EXCEPT ![p] = "returned"]
            /\ ret' = [ret EXCEPT ![p] = [kind |-> "transport_error", data |-> <<>>]]
            /\ trace' = [trace EXCEPT ![p] = @ \o <<"rerr">>]
    /\ UNCHANGED <<callerVars, accessToken, nextTok, params, hdr, tok0>>

\* a GET fails otherwise (network failure, another status): rethrown
GetError(p) ==
    /\ InFlightGet(p)
    /\ rpc' = [rpc EXCEPT ![p] = "returned"]
    /\ ret' = [ret EXCEPT ![p] = [kind |-> "transport_error", data |-> <<>>]]
    /\ trace' = [trace EXCEPT ![p] = @ \o <<"rerr">>]
    /\ UNCHANGED <<callerVars, accessToken, nextTok, params, hdr, tok0>>

----------------------------------------------------------------------------
(* getJourneyActivities over StravaClient.getAllActivitiesAfter *)

NoResult == [activities |-> <<>>, startDate |-> NaN, returned |-> FALSE]
Returned(r) == [activities |-> r.activities, startDate |-> r.startDate,
                returned |-> TRUE]

\* FilterPage without the test of the type
FilterPageAnyType(activities, a) ==
    SelectSeq(activities, LAMBDA x : ActivityTimeGe(x.start_date, a))

\* activities.filter(activityTime >= after && type === 'Ride')
FilterPage(activities, a) ==
    SelectSeq(activities,
              LAMBDA x : ActivityTimeGe(x.start_date, a) /\ x.type = "Ride")

\* StopAfter with <= for <: a full page ends the loop
StopAfterFullPage(activities, perPage, a) ==
    \/ Len(activities) <= perPage
    \/ /\ Len(activities) > 0
       /\ ActivityTimeLt(activities[Len(activities)].start_date, a)

\* StopAfter looking at the page length only
StopAfterShortPage(activities, perPage, a) ==
    Len(activities) < perPage

\* StopAfter with the date test turned round
StopAfterNewer(activities, perPage, a) ==
    \/ Len(activities) < perPage
    \/ /\ Len(activities) > 0
       /\ ActivityTimeGe(activities[Len(activities)].start_date, a)

\* the stop condition of the pagination loop
StopAfter(activities, perPage, a) ==
    \/ Len(activities) < perPage
    \/ /\ Len(activities) > 0
       /\ ActivityTimeLt(activities[Len(activities)].start_date, a)

\* getJourneyActivities up to its first await: the constructor throws on
\* missing credentials, otherwise page 1 is requested
JourneyStart(p) ==
    /\ jpc = "init"
    /\ IF ~creds
       THEN /\ jpc' = "done"
            /\ result' = Returned(getMockActivities(startDate))
            /\ UNCHANGED <<clientVars, after, page, allActivities, requests>>
       ELSE /\ jpc' = "fetching"
            /\ after' = AfterOf(startDate)
            /\ page' = 1
            /\ allActivities' = <<>>
            /\ requests' = 1
            /\ getActivities(p, PerPage, 1)
            /\ UNCHANGED <<accessToken, nextTok, result>>
    /\ UNCHANGED <<envVars, mapVars, calls, codecVars>>

\* ceil(a / b)
CeilDiv(a, b) == (a + b - 1) \div b
\* the page requests the claim allows for the provider's history
RequestBound == CeilDiv(Len(feed), PerPage) + 1

\* LoopStep asking for the same page again (page++ left out); it gives up two
\* requests past RequestBound
LoopStepSamePage(p) ==
    /\ jpc = "fetching"
    /\ rpc[p] = "returned"
    /\ ret[p].kind = "ok"
    /\ LET activities == ret[p].data
           acc == IF Len(activities) = 0 THEN allActivities
                  ELSE allActivities \o FilterPage(activities, after)
           more == /\ Len(activities) # 0
                   /\ ~StopAfter(activities, PerPage, after)
                   /\ requests < RequestBound + 2
       IN /\ allActivities' = acc
          /\ IF more
             THEN /\ requests' = requests + 1
                  /\ getActivities(p, PerPage, page)
                  /\ UNCHANGED <<jpc, result, page>>
             ELSE /\ jpc' = "done"
                  /\ result' = Returned([activities |-> acc, startDate |-> startDate])
                  /\ rpc' = [rpc EXCEPT ![p] = "idle"]
                  /\ UNCHANGED <<page, requests, params, hdr, ret, trace, tok0>>
    /\ UNCHANGED <<envVars, mapVars, calls, codecVars, accessToken, nextTok, after>>

\* one iteration of the loop of getAllActivitiesAfter, from the page's arrival
\* to the next request or the return
LoopStep(p) ==
    /\ jpc = "fetching"
    /\ rpc[p] = "returned"
    /\ ret[p].kind = "ok"
    /\ LET activities == ret[p].data
           acc == IF Len(activities) = 0 THEN allActivities
                  ELSE allActivities \o FilterPage(activities, after)
           more == Len(activities) # 0 /\ ~StopAfter(activities, PerPage, after)
       IN /\ allActivities' = acc
          /\ IF more
             THEN /\ page' = page + 1
                  /\ requests' = requests + 1
                  /\ getActivities(p, PerPage, page + 1)
                  /\ UNCHANGED <<jpc, result>>
             ELSE /\ jpc' = "done"
                  /\ result' = Returned([activities |-> acc, startDate |-> startDate])
                  /\ rpc' = [rpc EXCEPT ![p] = "idle"]
                  /\ UNCHANGED <<page, requests, params, hdr, ret, trace, tok0>>
    /\ UNCHANGED <<envVars, mapVars, calls, codecVars, accessToken, nextTok, after>>

\* JourneyCatch returning what was gathered instead of the fixture
JourneyCatchPartial(p) ==
    /\ jpc = "fetching"
    /\ rpc[p] = "returned"
    /\ ret[p].kind # "ok"
    /\ jpc' = "done"
    /\ result' = Returned([activities |-> allActivities, startDate |-> startDate])
    /\ rpc' = [rpc EXCEPT ![p] = "idle"]
    /\ UNCHANGED <<envVars, mapVars, calls, codecVars, accessToken, nextTok, params,
                   hdr, ret, trace, tok0, after, page, allActivities, requests>>

\* an error leaves getAllActivitiesAfter: the catch of getJourneyActivities
JourneyCatch(p) ==
    /\ jpc = "fetching"
    /\ rpc[p] = "returned"
    /\ ret[p].kind # "ok"
    /\ jpc' = "done"
    /\ result' = Returned(getMockActivities(startDate))
    /\ rpc' = [rpc EXCEPT ![p] = "idle"]
    /\ UNCHANGED <<envVars, mapVars, calls, codecVars, accessToken, nextTok, params,
                   hdr, ret, trace, tok0, after, page, allActivities, requests>>

----------------------------------------------------------------------------

----------------------------------------------------------------------------
(* Callers that use one client instance directly and concurrently *)

\* a caller invokes getActivities() on the shared instance
CallGetActivities(p) ==
    /\ rpc[p] = "idle"
    /\ calls[p] < MaxCalls
    /\ calls' = [calls EXCEPT ![p] = @ + 1]
    /\ getActivities(p, PerPage, 1)
    /\ UNCHANGED <<envVars, mapVars, journeyVars, codecVars, accessToken, nextTok>>

\* the caller's await resumes with the page or the error
CallReturn(p) ==
    /\ rpc[p] = "returned"
    /\ jpc = "direct"
    /\ rpc' = [rpc EXCEPT ![p] = "idle"]
    /\ UNCHANGED <<envVars, mapVars, calls, journeyVars, codecVars, accessToken, nextTok,
                   params, hdr, ret, trace, tok0>>

----------------------------------------------------------------------------
(* getJourneyActivities over ActivitiesApi and fetchAllActivities *)

\* the provider of this variant receives `after` and serves the activities
\* from then on
ServePageAfter(f, a, prm) ==
    ServePage(SelectSeq(f, LAMBDA x : ActivityTimeGe(x.start_date, a)), prm)

\* getJourneyActivities up to its first await
ApiStart ==
    /\ jpc = "init"
    /\ IF ~stravaAccessToken
       THEN /\ jpc' = "done"
            /\ result' = Returned(getMockActivities(startDate))
            /\ UNCHANGED <<after, page, allActivities, requests>>
       ELSE /\ jpc' = "api_call"
            /\ after' = AfterOf(startDate)
            /\ page' = 1
            /\ allActivities' = <<>>
            /\ requests' = 1
            /\ UNCHANGED result
    /\ UNCHANGED <<envVars, mapVars, calls, codecVars, clientVars>>

\* getLoggedInAthleteActivities answers: a full page recurses, a short one
\* returns
ApiPageOk(p) ==
    /\ jpc = "api_call"
    /\ LET newActivities == ServePageAfter(feed, after,
                                           [per_page |-> PerPage, page |-> page])
           activities == allActivities \o newActivities
       IN /\ ret' = [ret EXCEPT ![p] = [kind |-> "ok", data |-> newActivities]]
          /\ allActivities' = activities
          /\ IF Len(newActivities) = PerPage
             THEN /\ page' = page + 1
                  /\ requests' = requests + 1
                  /\ UNCHANGED <<jpc, result>>
             ELSE /\ jpc' = "done"
                  /\ result' = Returned([activities |-> activities,
                                         startDate |-> startDate])
                  /\ UNCHANGED <<page, requests>>
    /\ UNCHANGED <<envVars, mapVars, calls, codecVars, accessToken, nextTok, rpc, params,
                   hdr, trace, tok0, after>>

\* getLoggedInAthleteActivities throws: the catch of fetchAllActivities
\* returns what was gathered
ApiPageError(p) ==
    /\ jpc = "api_call"
    /\ ret' = [ret EXCEPT ![p] = [kind |-> "transport_error", data |-> <<>>]]
    /\ jpc' = "done"
    /\ result' = Returned([activities |-> allActivities, startDate |-> startDate])
    /\ UNCHANGED <<envVars, mapVars, calls, codecVars, accessToken, nextTok, rpc, params,
                   hdr, trace, tok0, after, page, allActivities, requests>>

----------------------------------------------------------------------------
(* 32-bit integer operations of JavaScript (|, &, ~, <<, >>) *)

Pow2(k) == 2 ^ k

\* bit k of the two's complement of x (\div rounds down, so this also holds
\* for negative x)
Bit(x, k) == IF k = 31 THEN (IF x < 0 THEN 1 ELSE 0) ELSE (x \div Pow2(k)) % 2

\* the value of bits lo..hi, summed by halves
RECURSIVE BitSum(_, _, _)
BitSum(f, lo, hi) ==
    IF lo = hi THEN f[lo] * Pow2(lo)
    ELSE LET mid == (lo + hi) \div 2
         IN BitSum(f, lo, mid) + BitSum(f, mid + 1, hi)

LowSum(f, k) == IF k < 0 THEN 0 ELSE BitSum(f, 0, k)

\* the signed value of 32 bits
FromBits(f) ==
    IF f[31] = 1 THEN (LowSum(f, 30) - Pow2(30)) - Pow2(30) ELSE LowSum(f, 30)

Or32(a, b) ==
    FromBits([k \in 0..31 |-> IF Bit(a, k) = 1 \/ Bit(b, k) = 1 THEN 1 ELSE 0])
And32(a, b) ==
    FromBits([k \in 0..31 |-> IF Bit(a, k) = 1 /\ Bit(b, k) = 1 THEN 1 ELSE 0])
Not32(x) == (0 - 1) - x
\* x << n: the shift count is taken modulo 32, bits shifted out are lost
Shl32(x, n) ==
    LET s == n % 32
    IN FromBits([k \in 0..31 |-> IF k >= s THEN Bit(x, k - s) ELSE 0])
\* x >> n, sign-propagating (used with n = 1 and n = 5)
Sar32(x, n) == x \div Pow2(n % 32)

----------------------------------------------------------------------------
(* The polyline codec.  encodePolyline takes coordinates in 1/Resolution of *)
(* 10^-5 degree; decodePolyline yields them as the integer it divides by   *)
(* 1e5, so a decoded component d stands for d / 1e5 degrees.               *)

\* Math.round(c * 1e5) for a coordinate c of m units: the nearest integer,
\* a half rounding up
MathRound(m) == (2 * m + Resolution) \div (2 * Resolution)

\* String.fromCharCode
FromCharCode(c) == c % 65536

RECURSIVE EncodeLoop(_)
EncodeLoop(v) ==
    IF v >= 32
    THEN <<FromCharCode(Or32(32, And32(v, 31)) + 63)>> \o EncodeLoop(Sar32(v, 5))
    ELSE <<FromCharCode(v + 63)>>

\* encodeValue without the complement of a negative value
encodeValueNoFlip(value) == EncodeLoop(Shl32(value, 1))

encodeValue(value) ==
    EncodeLoop(IF value < 0 THEN Not32(Shl32(value, 1)) ELSE Shl32(value, 1))

RECURSIVE EncodeFrom(_, _, _, _)
EncodeFrom(pts, i, lat, lng) ==
    IF i > Len(pts) THEN <<>>
    ELSE LET latValue == MathRound(pts[i][1])
             lngValue == MathRound(pts[i][2])
         IN encodeValue(latValue - lat) \o encodeValue(lngValue - lng)
            \o EncodeFrom(pts, i + 1, latValue, lngValue)

encodePolyline(pts) ==
    IF Len(pts) = 0 THEN <<>> ELSE EncodeFrom(pts, 1, 0, 0)

\* ReadValue with a read past the end consuming nothing
RECURSIVE ReadValueStuck(_, _, _, _)
ReadValueStuck(enc, index, shift, res) ==
    LET inside == index <= Len(enc)
        b == IF inside THEN enc[index] - 63 ELSE 0
        group == IF inside THEN And32(b, 31) ELSE 0
        r == Or32(res, Shl32(group, shift))
    IN IF r \in Int /\ inside /\ b >= 32
       THEN ReadValueStuck(enc, index + 1, shift + 5, r)
       ELSE [index |-> IF inside THEN index + 1 ELSE index, result |-> r]

\* the do-while that reads one value: index is 1-based here, and a read past
\* the end is charCodeAt's NaN (its group is 0 and it ends the loop); result
\* is updated (a 32-bit integer) before the loop condition is tested
RECURSIVE ReadValue(_, _, _, _)
ReadValue(enc, index, shift, res) ==
    LET inside == index <= Len(enc)
        b == IF inside THEN enc[index] - 63 ELSE 0
        group == IF inside THEN And32(b, 31) ELSE 0
        r == Or32(res, Shl32(group, shift))
    IN IF r \in Int /\ inside /\ b >= 32
       THEN ReadValue(enc, index + 1, shift + 5, r)
       ELSE [index |-> index + 1, result |-> r]

\* (result & 1) !== 0 ? ~(result >> 1) : (result >> 1)
Delta(res) ==
    IF And32(res, 1) # 0 THEN Not32(Sar32(res, 1)) ELSE Sar32(res, 1)

RECURSIVE DecodeFrom(_, _, _, _)
DecodeFrom(enc, index, lat, lng) ==
    IF index > Len(enc) THEN <<>>
    ELSE LET a == ReadValue(enc, index, 0, 0)
             lat2 == lat + Delta(a.result)
             o == ReadValue(enc, a.index, 0, 0)
             lng2 == lng + Delta(o.result)
         IN << <<lat2, lng2>> >> \o DecodeFrom(enc, o.index, lat2, lng2)

\* the five cities returned for 'mock_polyline_data', as degrees * 1e5
MockPoints ==
    << <<5150740, 0 - 12780>>, <<4885660, 235220>>, <<4190280, 1249640>>,
       <<4041680, 0 - 370380>>, <<5252000, 1340500>> >>

\* decodePolyline without the empty-string guard and with a loop that tests
\* its condition after the body
decodePolylineDoWhile(enc) ==
    IF enc = MockPolyline THEN MockPoints
    ELSE LET a == ReadValue(enc, 1, 0, 0)
             o == ReadValue(enc, a.index, 0, 0)
         IN << <<Delta(a.result), Delta(o.result)>> >>
            \o DecodeFrom(enc, o.index, Delta(a.result), Delta(o.result))

decodePolyline(enc) ==
    IF Len(enc) = 0 THEN <<>>
    ELSE IF enc = MockPolyline THEN MockPoints
    ELSE DecodeFrom(enc, 1, 0, 0)

\* the decodePolyline of src/lib/polyline.ts: a placeholder that logs and
\* returns no point, whatever the string
placeholderDecodePolyline(enc) ==
    IF Len(enc) = 0 THEN <<>> ELSE <<>>

\* the decodePolyline that the import of './polyline' resolves to
DecodeWith(d, enc) ==
    IF d = "placeholder" THEN placeholderDecodePolyline(enc)
    ELSE decodePolyline(enc)
Decoders == {"codec", "placeholder"}

\* coordinates (latitude, longitude) given to encodePolyline, in degrees * 1e5
\* times Resolution; the last two lie between two multiples of 10^-5 degree
E5(lat, lng) == <<lat * Resolution, lng * Resolution>>
InputPoints ==
    { E5(0, 0), E5(3850000, 0 - 12020000), E5(4070000, 0 - 12095000),
      E5(9000000, 18000000), E5(0 - 9000000, 0 - 18000000), E5(0 - 1, 16),
      <<3850000 * Resolution + Resolution \div 2, 0>>,
      <<0, (0 - 12020000) * Resolution - 1>> }
PointSeqs == UNION { [1..n -> InputPoints] : n \in 0..MaxPts }

\* strings given to decodePolyline directly: the empty string, the sentinel,
\* '_p~iF~ps|U', a string ending inside a value and one without a longitude
RawStrings ==
    { <<>>, MockPolyline,
      <<95, 112, 126, 105, 70, 126, 112, 115, 124, 85>>,
      <<95, 112, 126>>,
      <<95, 112, 126, 105, 70>> }

Encode ==
    /\ cpc = "points"
    /\ encoded' = encodePolyline(points)
    /\ cpc' = "encoded"
    /\ UNCHANGED <<envVars, mapVars, clientVars, calls, journeyVars, cin, points, decoded>>

Decode ==
    /\ cpc = "encoded"
    /\ decoded' = decodePolyline(encoded)
    /\ cpc' = "decoded"
    /\ UNCHANGED <<envVars, mapVars, clientVars, calls, journeyVars, cin, points, encoded>>

NotRun == [done |-> FALSE, out |-> <<>>]

----------------------------------------------------------------------------
(* ActivityProcessor (src/unnamed/part_004).  Coordinates are degrees * 1e5, *)
(* a missing start_latlng, end_latlng or summary_polyline is <<>>.           *)

SummaryActivity(id, date, type, distance, gain, start, end, polyline) ==
    [id |-> id, name |-> "activity", start_date |-> date, type |-> type,
     distance |-> distance, total_elevation_gain |-> gain,
     start_latlng |-> start, end_latlng |-> end, summary_polyline |-> polyline]

\* new Date(activity.start_date || '') >= new Date(startDate); a missing or
\* unparsable date on either side makes the comparison false
DateGe(start_date, sd) ==
    LET t == GetTime(start_date)
        u == GetTime(sd)
    IN t.valid /\ u.valid /\ t.v >= u.v

\* the comparator of the sort, dateA - dateB; sort reads a NaN as +0
SortCompare(a, b) ==
    LET dateA == GetTime(a.start_date)
        dateB == GetTime(b.start_date)
    IN IF dateA.valid /\ dateB.valid THEN dateA.v - dateB.v ELSE 0

\* Array.prototype.sort is stable: x goes after every element that does not
\* compare greater than it
RECURSIVE SortInsert(_, _)
SortInsert(sorted, x) ==
    IF Len(sorted) = 0 THEN <<x>>
    ELSE IF SortCompare(sorted[Len(sorted)], x) <= 0 THEN Append(sorted, x)
    ELSE Append(SortInsert(SubSeq(sorted, 1, Len(sorted) - 1), x),
                sorted[Len(sorted)])

RECURSIVE SortFrom(_, _, _)
SortFrom(s, i, sorted) ==
    IF i > Len(s) THEN sorted ELSE SortFrom(s, i + 1, SortInsert(sorted, s[i]))

\* a mutation of the sort: newest first
SortDescending(s) ==
    LET a == SortFrom(s, 1, <<>>) IN [i \in 1..Len(a) |-> a[Len(a) + 1 - i]]

SortByDate(s) == SortFrom(s, 1, <<>>)

\* SwapLatLng leaving the points as decoded
KeepLatLng(pts) == pts

\* decodedPoints.map(([lat, lng]) => [lng, lat])
SwapLatLng(pts) == [i \in 1..Len(pts) |-> <<pts[i][2], pts[i][1]>>]

Feature(activity, coordinates) ==
    [id |-> activity.id, name |-> activity.name, type |-> activity.type,
     date |-> activity.start_date, distance |-> activity.distance,
     coordinates |-> coordinates]

\* the features of the sorted activities that have a summary_polyline
FeaturesOf(sorted, d) ==
    LET withLine == SelectSeq(sorted, LAMBDA a : Len(a.summary_polyline) # 0)
    IN [i \in 1..Len(withLine) |->
           Feature(withLine[i],
                   SwapLatLng(DecodeWith(d, withLine[i].summary_polyline)))]

\* a mutation of processActivities: the features are newest first
processActivitiesDescending(acts, sd, d) ==
    IF Len(acts) = 0 THEN <<>>
    ELSE SelectSeq(FeaturesOf(SortDescending(SelectSeq(acts,
                        LAMBDA a : DateGe(a.start_date, sd))), d),
                   LAMBDA f : Len(f.coordinates) # 0)

\* processActivities, first variant: a feature without coordinates is skipped
processActivities(acts, sd, d) ==
    IF Len(acts) = 0 THEN <<>>
    ELSE LET filteredActivities ==
                 SelectSeq(acts, LAMBDA a : DateGe(a.start_date, sd))
             sortedActivities == SortByDate(filteredActivities)
         IN SelectSeq(FeaturesOf(sortedActivities, d),
                      LAMBDA f : Len(f.coordinates) # 0)

\* processActivities, second variant: every activity with a polyline is mapped
processActivitiesSecond(acts, sd, d) ==
    IF Len(acts) = 0 THEN <<>>
    ELSE LET filteredActivities ==
                 SelectSeq(acts, LAMBDA a : DateGe(a.start_date, sd))
             sortedActivities == SortByDate(filteredActivities)
         IN FeaturesOf(sortedActivities, d)

\* degrees as the model counts coordinates
Deg(n) == n * 100000
Max(a, b) == IF a >= b THEN a ELSE b

\* minLat = 90, maxLat = -90, minLng = 180, maxLng = -180, no coordinate yet
BoundsSeed ==
    [minLat |-> Deg(90), maxLat |-> 0 - Deg(90), minLng |-> Deg(180),
     maxLng |-> 0 - Deg(180), hasValidCoordinates |-> FALSE]

\* the four Math.min / Math.max updates for one [lat, lng]
FoldPoint(acc, pt) ==
    [minLat |-> Min(acc.minLat, pt[1]), maxLat |-> Max(acc.maxLat, pt[1]),
     minLng |-> Min(acc.minLng, pt[2]), maxLng |-> Max(acc.maxLng, pt[2]),
     hasValidCoordinates |-> TRUE]

RECURSIVE FoldPoints(_, _, _)
FoldPoints(acc, pts, j) ==
    IF j > Len(pts) THEN acc ELSE FoldPoints(FoldPoint(acc, pts[j]), pts, j + 1)

\* the body of activities.forEach for one activity
FoldActivity(acc, activity, d) ==
    LET a1 == IF Len(activity.start_latlng) = 2
              THEN FoldPoint(acc, activity.start_latlng) ELSE acc
        a2 == IF Len(activity.end_latlng) = 2
              THEN FoldPoint(a1, activity.end_latlng) ELSE a1
    IN IF Len(activity.summary_polyline) # 0
       THEN FoldPoints(a2, DecodeWith(d, activity.summary_polyline), 1)
       ELSE a2

RECURSIVE FoldActivities(_, _, _, _)
FoldActivities(acc, acts, i, d) ==
    IF i > Len(acts) THEN acc
    ELSE FoldActivities(FoldActivity(acc, acts[i], d), acts, i + 1, d)

NullBounds == [isNull |-> TRUE, box |-> <<0, 0, 0, 0>>]
Box(acc) ==
    [isNull |-> FALSE,
     box |-> <<acc.minLng, acc.minLat, acc.maxLng, acc.maxLat>>]

\* a mutation of calculateBounds: the box is returned without looking at
\* hasValidCoordinates
calculateBoundsAlwaysBox(acts, d) ==
    IF Len(acts) = 0 THEN NullBounds
    ELSE Box(FoldActivities(BoundsSeed, acts, 1, d))

\* a mutation of calculateBounds: the polylines are not looked at
calculateBoundsEndpoints(acts, d) ==
    LET ends == [i \in 1..Len(acts) |-> [acts[i] EXCEPT !.summary_polyline = <<>>]]
        acc == FoldActivities(BoundsSeed, ends, 1, d)
    IN IF Len(acts) = 0 THEN NullBounds
       ELSE IF acc.hasValidCoordinates THEN Box(acc) ELSE NullBounds

\* a mutation of calculateBounds: end_latlng is not looked at
calculateBoundsNoEnd(acts, d) ==
    LET noEnd == [i \in 1..Len(acts) |-> [acts[i] EXCEPT !.end_latlng = <<>>]]
        acc == FoldActivities(BoundsSeed, noEnd, 1, d)
    IN IF Len(acts) = 0 THEN NullBounds
       ELSE IF acc.hasValidCoordinates THEN Box(acc) ELSE NullBounds

calculateBounds(acts, d) ==
    IF Len(acts) = 0 THEN NullBounds
    ELSE LET acc == FoldActivities(BoundsSeed, acts, 1, d)
         IN IF acc.hasValidCoordinates THEN Box(acc) ELSE NullBounds

\* activities given to the processor: with start and end points only, with a
\* one-point polyline only ('_p~iF~ps|U'), dated before the journey with the
\* sentinel polyline, without a date and without any coordinate, dated at the
\* journey start with a two-point polyline and an end point
TwoPointLine == encodePolyline(<<E5(4070000, 0 - 12095000), E5(4325200, 0 - 12645300)>>)
MapPool ==
    { SummaryActivity(1, Num(5000), "Ride", 1000, 100,
                      <<Deg(10), Deg(20)>>, <<0 - Deg(5), Deg(30)>>, <<>>),
      SummaryActivity(2, Num(2000), "Ride", 2000, 50, <<>>, <<>>,
                      <<95, 112, 126, 105, 70, 126, 112, 115, 124, 85>>),
      SummaryActivity(3, Num(1000), "Run", 500, 10, <<>>, <<>>, MockPolyline),
      SummaryActivity(4, NaN, "Ride", 0, 0, <<>>, <<>>, <<>>),
      SummaryActivity(5, Num(1500), "Run", 700, 0, <<>>,
                      <<Deg(41), 0 - Deg(125)>>, TwoPointLine) }
MapLists == UNION { [1..n -> MapPool] : n \in 0..MaxActs }

Variants == {1, 2}
ProcessWith(v, acts, sd, d) ==
    IF v = 1 THEN processActivities(acts, sd, d)
    ELSE processActivitiesSecond(acts, sd, d)

\* processActivities applied to the activities and the start date
Process ==
    /\ jpc = "map"
    /\ journeyData' = ProcessWith(variant, mapActivities, startDate, decoder)
    /\ jpc' = "processed"
    /\ UNCHANGED <<envVars, clientVars, calls, codecVars, after, page,
                   allActivities, requests, result, placeholder, decoder,
                   variant, mapActivities, bounds, stats, effects>>

\* calculateBounds applied to the activities
Bounds ==
    /\ jpc \in {"map", "processed"}
    /\ ~bounds.called
    /\ bounds' = [called |-> TRUE] @@ calculateBounds(mapActivities, decoder)
    /\ UNCHANGED <<envVars, clientVars, calls, codecVars, journeyVars,
                   placeholder, decoder, variant, mapActivities, journeyData,
                   stats, effects>>

----------------------------------------------------------------------------
(* The stats effect of JourneyMap (src/src/app/_components/journey-map.tsx) *)

\* useState({ totalDistance: 0, totalElevationGain: 0, totalActivities: 0,
\* activityTypes: {} }); a type without a key counts 0
ActivityTypes == {"Ride", "Run"}
NoStats ==
    [totalDistance |-> 0, totalElevationGain |-> 0, totalActivities |-> 0,
     activityTypes |-> [t \in ActivityTypes |-> 0]]

RECURSIVE SumFrom(_, _, _)
SumFrom(acts, i, field) ==
    IF i > Len(acts) THEN 0
    ELSE (IF field = "distance" THEN acts[i].distance
          ELSE acts[i].total_elevation_gain) + SumFrom(acts, i + 1, field)

\* let totalDistance = 0; ... totalDistance += activity.distance
TotalDistance(acts) == SumFrom(acts, 1, "distance")
\* what one run adds to stats.totalElevationGain
ElevationGain(acts) == SumFrom(acts, 1, "gain")
\* activityTypes[activity.type] = (activityTypes[activity.type] || 0) + 1
CountTypes(acts) ==
    [t \in ActivityTypes |->
        Cardinality({ i \in 1..Len(acts) : acts[i].type = t })]

StatPool == { a \in MapPool : a.id \in {1, 2, 3} }
StatLists == UNION { [1..n -> StatPool] : n \in 0..MaxStatActs }

\* a mutation of the effect: the elevation gain starts from 0 in every run
StatsEffectFresh(acts) ==
    /\ jpc = "mounted"
    /\ effects < MaxEffects
    /\ mapActivities' = acts
    /\ effects' = effects + 1
    /\ IF Len(acts) > 0
       THEN /\ journeyData' = ProcessWith(variant, acts, startDate, decoder)
            /\ stats' = [totalDistance |-> TotalDistance(acts),
                         totalElevationGain |-> ElevationGain(acts),
                         totalActivities |-> Len(acts),
                         activityTypes |-> CountTypes(acts)]
       ELSE UNCHANGED <<journeyData, stats>>
    /\ UNCHANGED <<envVars, clientVars, calls, codecVars, journeyVars,
                   placeholder, decoder, variant, bounds>>

\* a render with a new activities prop, and the run of the effect that
\* follows it: stats is the state object of that render, which the effect
\* adds the elevation gains to before it copies the total into the new state
StatsEffect(acts) ==
    /\ jpc = "mounted"
    /\ effects < MaxEffects
    /\ mapActivities' = acts
    /\ effects' = effects + 1
    /\ IF Len(acts) > 0
       THEN /\ journeyData' = ProcessWith(variant, acts, startDate, decoder)
            /\ stats' = [totalDistance |-> TotalDistance(acts),
                         totalElevationGain |->
                             stats.totalElevationGain + ElevationGain(acts),
                         totalActivities |-> Len(acts),
                         activityTypes |-> CountTypes(acts)]
       ELSE UNCHANGED <<journeyData, stats>>
    /\ UNCHANGED <<envVars, clientVars, calls, codecVars, journeyVars,
                   placeholder, decoder, variant, bounds>>

\* the same string given to the decodePolyline of src/lib/polyline.ts
DecodePlaceholder ==
    /\ cin = "string"
    /\ ~placeholder.done
    /\ placeholder' = [done |-> TRUE, out |-> placeholderDecodePolyline(encoded)]
    /\ UNCHANGED <<envVars, clientVars, calls, journeyVars, codecVars, decoder,
                   variant, mapActivities, journeyData, bounds, stats, effects>>

----------------------------------------------------------------------------

ClientInit ==
    /\ accessToken = Null
    /\ nextTok = 1
    /\ rpc = [p \in Procs |-> "idle"]
    /\ params = [p \in Procs |-> [per_page |-> PerPage, page |-> 1]]
    /\ hdr = [p \in Procs |-> Null]
    /\ ret = [p \in Procs |-> Idle]
    /\ trace = [p \in Procs |-> <<>>]
    /\ tok0 = [p \in Procs |-> Null]
    /\ calls = [p \in Procs |-> 0]

JourneyInit ==
    /\ jpc = "init"
    /\ after = NaN
    /\ page = 1
    /\ allActivities = <<>>
    /\ requests = 0
    /\ result = NoResult

CodecIdle ==
    /\ cin = "none"
    /\ cpc = "none"
    /\ points = <<>>
    /\ encoded = <<>>
    /\ decoded = <<>>

NoBounds == [called |-> FALSE] @@ NullBounds

MapIdle ==
    /\ placeholder = NotRun
    /\ decoder = "codec"
    /\ variant = 1
    /\ mapActivities = <<>>
    /\ journeyData = <<>>
    /\ bounds = NoBounds
    /\ stats = NoStats
    /\ effects = 0

(* The pipeline over StravaClient *)

Init ==
    /\ creds \in BOOLEAN
    /\ stravaAccessToken = FALSE
    /\ startDate \in StartDates
    /\ \E ss \in SegSeqs : feed = BuildFeed(ss)
    /\ ClientInit
    /\ JourneyInit
    /\ CodecIdle
    /\ MapIdle

Next ==
    \E p \in JourneyProcs :
        \/ JourneyStart(p)
        \/ LoopStep(p)
        \/ JourneyCatch(p)
        \/ RefreshOk(p)
        \/ RefreshFail(p)
        \/ Get200(p)
        \/ Get401First(p)
        \/ Get401Retry(p)
        \/ GetError(p)

Spec == Init /\ [][Next]_vars

(* The pipeline over ActivitiesApi *)

InitApi ==
    /\ creds = FALSE
    /\ stravaAccessToken \in BOOLEAN
    /\ startDate \in StartDates
    /\ \E ss \in SegSeqs : feed = BuildFeed(ss)
    /\ ClientInit
    /\ JourneyInit
    /\ CodecIdle
    /\ MapIdle

NextApi ==
    \E p \in JourneyProcs :
        \/ ApiStart
        \/ ApiPageOk(p)
        \/ ApiPageError(p)

SpecApi == InitApi /\ [][NextApi]_vars

(* Concurrent callers of one client instance *)

ConcSegSeqs == { <<>>, << <<50, [type |-> "Ride", start_date |-> Num(5000)]>> >> }

InitConc ==
    /\ creds = TRUE
    /\ stravaAccessToken = FALSE
    /\ startDate = Num(0)
    /\ \E ss \in ConcSegSeqs : feed = BuildFeed(ss)
    /\ ClientInit
    /\ jpc = "direct"
    /\ after = NaN
    /\ page = 1
    /\ allActivities = <<>>
    /\ requests = 0
    /\ result = NoResult
    /\ CodecIdle
    /\ MapIdle

NextConc ==
    \E p \in Procs :
        \/ CallGetActivities(p)
        \/ CallReturn(p)
        \/ RefreshOk(p)
        \/ RefreshFail(p)
        \/ Get200(p)
        \/ Get401First(p)
        \/ Get401Retry(p)
        \/ GetError(p)

SpecConc == InitConc /\ [][NextConc]_vars

(* The polyline codec *)

InitCodec ==
    /\ creds = FALSE
    /\ stravaAccessToken = FALSE
    /\ startDate = Num(0)
    /\ feed = <<>>
    /\ ClientInit
    /\ jpc = "codec"
    /\ after = NaN
    /\ page = 1
    /\ allActivities = <<>>
    /\ requests = 0
    /\ result = NoResult
    /\ MapIdle
    /\ decoded = <<>>
    /\ \/ /\ cin = "points"
          /\ cpc = "points"
          /\ points \in PointSeqs
          /\ encoded = <<>>
       \/ /\ cin = "string"
          /\ cpc = "encoded"
          /\ points = <<>>
          /\ encoded \in RawStrings

NextCodec ==
    \/ Encode
    \/ Decode
    \/ DecodePlaceholder

SpecCodec == InitCodec /\ [][NextCodec]_vars

----------------------------------------------------------------------------
(* Pagination when every request succeeds, in either variant.  Each await  *)
(* is answered and the code then runs on: weak fairness of the next step.  *)

InitPaging ==
    /\ creds = TRUE
    /\ stravaAccessToken = TRUE
    /\ startDate \in StartDates
    /\ \E ss \in SegSeqs : feed = BuildFeed(ss)
    /\ ClientInit
    /\ JourneyInit
    /\ CodecIdle
    /\ MapIdle

NextPaging ==
    \E p \in JourneyProcs :
        \/ JourneyStart(p)
        \/ LoopStep(p)
        \/ RefreshOk(p)
        \/ Get200(p)
        \/ ApiStart
        \/ ApiPageOk(p)

SpecPaging == InitPaging /\ [][NextPaging]_vars /\ WF_vars(NextPaging)

----------------------------------------------------------------------------
(* The activity processor *)

InitProc ==
    /\ creds = FALSE
    /\ stravaAccessToken = FALSE
    /\ startDate \in StartDates
    /\ feed = <<>>
    /\ ClientInit
    /\ jpc = "map"
    /\ after = NaN
    /\ page = 1
    /\ allActivities = <<>>
    /\ requests = 0
    /\ result = NoResult
    /\ CodecIdle
    /\ placeholder = NotRun
    /\ decoder \in Decoders
    /\ variant \in Variants
    /\ mapActivities \in MapLists
    /\ journeyData = <<>>
    /\ bounds = NoBounds
    /\ stats = NoStats
    /\ effects = 0

NextProc ==
    \/ Process
    \/ Bounds

SpecProc == InitProc /\ [][NextProc]_vars

(* The JourneyMap component *)

InitMap ==
    /\ creds = FALSE
    /\ stravaAccessToken = FALSE
    /\ startDate \in StartDates
    /\ feed = <<>>
    /\ ClientInit
    /\ jpc = "mounted"
    /\ after = NaN
    /\ page = 1
    /\ allActivities = <<>>
    /\ requests = 0
    /\ result = NoResult
    /\ CodecIdle
    /\ placeholder = NotRun
    /\ decoder = "codec"
    /\ variant \in Variants
    /\ mapActivities = <<>>
    /\ journeyData = <<>>
    /\ bounds = NoBounds
    /\ stats = NoStats
    /\ effects = 0

NextMap == \E acts \in StatLists : StatsEffect(acts)

SpecMap == InitMap /\ [][NextMap]_vars

----------------------------------------------------------------------------
(* Properties *)

\* the responses to the GETs of the current call, in order
Responses(p) == SelectSeq(trace[p], LAMBDA e : e \in {"r200", "r401", "rerr"})

\* the place of the first e in s (0 when there is none)
FirstIdx(s, e) ==
    IF \E i \in 1..Len(s) : s[i] = e
    THEN CHOOSE i \in 1..Len(s) : s[i] = e /\ \A j \in 1..(i - 1) : s[j] # e
    ELSE 0

\* C1: in one getActivities call a first 401 is followed by one refresh and,
\* once the refresh has succeeded, by exactly one more GET; a 401 on that
\* retry ends the call in an error; no call issues more than 2 GETs.
C1_RetryOnce ==
    \A p \in Procs :
        LET t == trace[p]
            i == FirstIdx(t, "r401")
        IN /\ Gets(p) <= 2
           /\ i > 0 =>
                /\ Len(t) > i /\ t[i + 1] = "post"
                /\ Count(SubSeq(t, i + 1, Len(t)), "post") = 1
                /\ (Len(t) > i + 1 /\ t[i + 2] = "post_ok")
                       => (Gets(p) = 2 /\ t[i + 3] = "get")
           /\ Count(t, "r401") = 2 =>
                /\ ~InFlightRefresh(p) /\ ~InFlightGet(p)
                /\ ret[p].kind = "http_401"
                /\ Gets(p) = 2
                /\ t[Len(t)] = "r401"

\* a call that ended on the second 401
C1_Witness ==
    \E p \in Procs : rpc[p] = "returned" /\ Responses(p) = <<"r401", "r401">>

\* C2 as stated: whatever the token state at the start of the call, 401 then
\* 200 gives a page with exactly one POST to the token endpoint, and two 401s
\* give an error with exactly one POST.
C2_OneRefreshAlways ==
    \A p \in Procs :
        rpc[p] = "returned" =>
            /\ Responses(p) = <<"r401", "r200">>
                   => (ret[p].kind = "ok" /\ Posts(p) = 1)
            /\ Responses(p) = <<"r401", "r401">>
                   => (ret[p].kind # "ok" /\ Posts(p) = 1)

\* C2 amended: the outcomes are as stated, with exactly one POST when the call
\* began with a token held and exactly two (the initial acquisition and the
\* refresh after the 401) when it began with none.
C2_OneRefreshPer401 ==
    \A p \in Procs :
        rpc[p] = "returned" =>
            LET n == IF tok0[p] = Null THEN 2 ELSE 1
            IN /\ Responses(p) = <<"r401", "r200">>
                      => (ret[p].kind = "ok" /\ Posts(p) = n)
               /\ Responses(p) = <<"r401", "r401">>
                      => (ret[p].kind # "ok" /\ Posts(p) = n)

\* a call that began with a token held, met a 401 and succeeded on the retry
C2_Witness ==
    \E p \in Procs :
        /\ rpc[p] = "returned"
        /\ tok0[p] # Null
        /\ Responses(p) = <<"r401", "r200">>
        /\ ret[p].kind = "ok"

\* getAllActivitiesAfter returned normally to getJourneyActivities
Live(p) == jpc = "done" /\ creds /\ ret[p].kind = "ok"

PageLen(k) == Len(ServePage(feed, [per_page |-> PerPage, page |-> k]))

\* the provider serves newest first
NewestFirst(f) ==
    \A i \in 1..(Len(f) - 1) :
        /\ f[i].start_date.valid /\ f[i + 1].start_date.valid
        /\ f[i].start_date.v >= f[i + 1].start_date.v

\* a provider of 200, 200 and 50 items, the oldest at or after `after`
Provider200_200_50 ==
    /\ PageLen(1) = PerPage /\ PageLen(2) = PerPage /\ PageLen(3) = 50
    /\ Len(feed) = 2 * PerPage + 50
    /\ NewestFirst(feed)
    /\ ActivityTimeGe(feed[Len(feed)].start_date, after)

C4_PartialSuccess ==
    \A p \in JourneyProcs :
        (jpc = "done" /\ creds /\ ret[p].kind # "ok" /\ page > 1)
            => result.activities = allActivities

\* C5: a transport error on the first page makes getJourneyActivities return
\* the fallback dataset, not an empty list.
C5_FirstPageFallback ==
    \A p \in JourneyProcs :
        (jpc = "done" /\ stravaAccessToken /\ page = 1
            /\ ret[p].kind = "transport_error")
            => result.activities = mockActivities

IsFixture(a) ==
    /\ Len(a) = 3
    /\ <<a[1].id, a[2].id, a[3].id>> = <<1, 2, 3>>
    /\ <<a[1].type, a[2].type, a[3].type>> = <<"Run", "Ride", "Hike">>
    /\ <<a[1].distance, a[2].distance, a[3].distance>> = <<5000, 15000, 8000>>
    /\ \A i \in 1..3 : a[i].summary_polyline = MockPolyline

\* C6: getJourneyActivities always returns a value, and whenever the pipeline
\* failed (credentials missing, refresh failed, request failed) the value is
\* the 3-activity fixture with the startDate it was given.
C6_Fallback ==
    \A p \in JourneyProcs :
        /\ jpc = "done" => result.returned
        /\ (jpc = "done" /\ (~creds \/ ret[p].kind # "ok"))
               => (IsFixture(result.activities) /\ result.startDate = startDate)

\* the pipeline failed on a refresh after at least one page had arrived
C6_Witness ==
    \E p \in JourneyProcs :
        /\ jpc = "done"
        /\ ret[p].kind = "auth_error"
        /\ page > 1
        /\ IsFixture(result.activities)

\* C7: after a failed refresh the stored access token is absent.
C7_NoTokenAfterFailedRefresh ==
    \A p \in Procs : ret[p].kind = "auth_error" => accessToken = Null

\* C8: at most one refresh exchange of one client instance is in flight.
C8_SingleFlight ==
    Cardinality({p \in Procs : InFlightRefresh(p)}) <= 1

OnGrid(pts) ==
    \A i \in 1..Len(pts) :
        pts[i][1] % Resolution = 0 /\ pts[i][2] % Resolution = 0

\* C9: for a path whose components are multiples of 10^-5 degree,
\* decodePolyline(encodePolyline(p)) is p, point by point and in order.
C9_RoundTrip ==
    (cin = "points" /\ cpc = "decoded" /\ OnGrid(points)) =>
        /\ Len(decoded) = Len(points)
        /\ \A i \in 1..Len(points) :
               /\ decoded[i][1] * Resolution = points[i][1]
               /\ decoded[i][2] * Resolution = points[i][2]

\* a path of several points, with a negative step, went through both
C9_Witness ==
    /\ cin = "points" /\ cpc = "decoded" /\ OnGrid(points)
    /\ Len(points) >= 2
    /\ points[2][1] < points[1][1]
    /\ decoded[2][2] < 0

\* C10: decodePolyline('') is the empty sequence and encodePolyline([]) is
\* the empty string.
C10_EmptyLaws ==
    /\ (cin = "points" /\ cpc # "points" /\ points = <<>>) => encoded = <<>>
    /\ (cpc = "decoded" /\ encoded = <<>>) => decoded = <<>>

\* the empty path was encoded and the result decoded
C10_Witness ==
    cin = "points" /\ points = <<>> /\ cpc = "decoded" /\ encoded = <<>>

\* C11: decodePolyline applied to the sentinel 'mock_polyline_data' returns
\* the five fixture coordinates London, Paris, Rome, Madrid, Berlin in that
\* order, in the decodePolyline of the codec and in that of src/lib/polyline.ts.
C11_MockSentinel ==
    encoded = MockPolyline =>
        /\ cpc = "decoded" => decoded = MockPoints
        /\ placeholder.done => placeholder.out = MockPoints

\* the codec's decodePolyline alone does return the five fixture coordinates
C11_CodecSentinel ==
    (cpc = "decoded" /\ encoded = MockPolyline) =>
        (Len(decoded) = 5 /\ decoded = MockPoints)

\* C12: every feature that processActivities returns comes from an activity
\* of its input whose start_date is at or after startDate, and the features
\* are in ascending order of start_date.
C12_FilterAndOrder ==
    jpc = "processed" =>
        /\ \A i \in 1..Len(journeyData) :
               /\ DateGe(journeyData[i].date, startDate)
               /\ \E k \in 1..Len(mapActivities) :
                      /\ mapActivities[k].id = journeyData[i].id
                      /\ mapActivities[k].start_date = journeyData[i].date
        /\ \A i \in 1..Len(journeyData) : \A j \in i..Len(journeyData) :
               journeyData[i].date.v <= journeyData[j].date.v

\* two features came out in the reverse of the input order, and an activity
\* with a polyline dated before the journey gave none
C12_Witness ==
    /\ jpc = "processed"
    /\ Len(mapActivities) = 3
    /\ Len(journeyData) = 2
    /\ journeyData[1].id = mapActivities[3].id
    /\ journeyData[2].id = mapActivities[1].id
    /\ journeyData[1].date.v < journeyData[2].date.v
    /\ ~DateGe(mapActivities[2].start_date, startDate)
    /\ Len(mapActivities[2].summary_polyline) # 0

\* the activities whose polyline decodes to at least one point
WithPoints(acts, d) ==
    SelectSeq(acts, LAMBDA a : /\ Len(a.summary_polyline) # 0
                               /\ Len(DecodeWith(d, a.summary_polyline)) # 0)

\* C13: every feature of processActivities has at least one coordinate; an
\* activity whose polyline is missing, empty or decodes to no point gives no
\* feature, and the features are those of the input without such activities.
C13_NonEmptyFeatures ==
    jpc = "processed" =>
        /\ \A i \in 1..Len(journeyData) : Len(journeyData[i].coordinates) >= 1
        /\ journeyData = ProcessWith(variant, WithPoints(mapActivities, decoder),
                                     startDate, decoder)

\* the first variant of processActivities does skip them
C13_FirstVariant ==
    (jpc = "processed" /\ variant = 1) =>
        /\ \A i \in 1..Len(journeyData) : Len(journeyData[i].coordinates) >= 1
        /\ journeyData = ProcessWith(variant, WithPoints(mapActivities, decoder),
                                     startDate, decoder)

\* every [lat, lng] that a list of activities carries: each start_latlng and
\* end_latlng of two numbers and each decoded polyline point
Range(f) == { f[i] : i \in DOMAIN f }
CoordinateSources(acts, d) ==
    UNION { (IF Len(acts[i].start_latlng) = 2 THEN {acts[i].start_latlng} ELSE {})
            \cup (IF Len(acts[i].end_latlng) = 2 THEN {acts[i].end_latlng} ELSE {})
            \cup Range(DecodeWith(d, acts[i].summary_polyline))
            : i \in 1..Len(acts) }
SetMin(S) == CHOOSE x \in S : \A y \in S : x <= y
SetMax(S) == CHOOSE x \in S : \A y \in S : x >= y

\* C14: calculateBounds returns null for the empty list and for every list in
\* which no activity has a start_latlng, an end_latlng or a polyline decoding
\* to at least one point.
C14_NullWithoutSources ==
    bounds.called =>
        (CoordinateSources(mapActivities, decoder) = {} => bounds.isNull)

\* calculateBounds ran on a list that is not empty and carries no coordinate
C14_Witness ==
    /\ bounds.called
    /\ Len(mapActivities) > 0
    /\ CoordinateSources(mapActivities, decoder) = {}
    /\ bounds.isNull

\* C15: when some activity carries a coordinate, calculateBounds returns
\* (minLng, minLat, maxLng, maxLat), each the minimum or maximum of its axis
\* over every start_latlng, end_latlng and decoded polyline point; for one
\* activity with start_latlng [10, 20] and end_latlng [-5, 30] it returns
\* (20, -5, 30, 10).
C15_MinMax ==
    bounds.called =>
        LET src == CoordinateSources(mapActivities, decoder)
            lats == { pt[1] : pt \in src }
            lngs == { pt[2] : pt \in src }
        IN /\ src # {} =>
                /\ ~bounds.isNull
                /\ bounds.box = <<SetMin(lngs), SetMin(lats),
                                  SetMax(lngs), SetMax(lats)>>
           /\ ( /\ Len(mapActivities) = 1
                /\ mapActivities[1].start_latlng = <<Deg(10), Deg(20)>>
                /\ mapActivities[1].end_latlng = <<0 - Deg(5), Deg(30)>>
                /\ Len(mapActivities[1].summary_polyline) = 0 )
              => bounds.box = <<Deg(20), 0 - Deg(5), Deg(30), Deg(10)>>

\* a box whose west and north sides come from a polyline point and whose
\* south and east sides come from an end_latlng
C15_Witness ==
    /\ bounds.called
    /\ decoder = "codec"
    /\ Len(mapActivities) = 2
    /\ mapActivities[1].id = 5
    /\ mapActivities[2].id = 1
    /\ bounds.box = <<0 - 12645300, 0 - Deg(5), Deg(30), 4325200>>

\* C16: after any sequence of runs of the stats effect, the published
\* totalElevationGain is the sum over the activities of the latest run only.
C16_FreshAccumulator ==
    (effects > 0 /\ Len(mapActivities) > 0) =>
        stats.totalElevationGain = ElevationGain(mapActivities)

\* C17: total distance, activity count and per-type counts count exactly the
\* activities with start_date at or after startDate, the set that
\* processActivities keeps.
C17_StatsOverFiltered ==
    (effects > 0 /\ Len(mapActivities) > 0) =>
        LET kept == SelectSeq(mapActivities,
                              LAMBDA a : DateGe(a.start_date, startDate))
        IN /\ stats.totalDistance = TotalDistance(kept)
           /\ stats.totalActivities = Len(kept)
           /\ stats.activityTypes = CountTypes(kept)

\* C18: once a token refresh has failed inside a request, the client issues
\* no further POST and no further GET for that request, and the request ends
\* with an authentication error.
C18_RefreshFailureTerminal ==
    \A p \in Procs :
        LET t == trace[p]
            i == FirstIdx(t, "post_fail")
        IN i > 0 =>
              /\ i = Len(t)
              /\ ~InFlightRefresh(p) /\ ~InFlightGet(p)
              /\ ret[p].kind = "auth_error"

\* the refresh that followed a 401 failed and ended the request
C18_Witness ==
    \E p \in Procs :
        /\ Len(trace[p]) >= 3
        /\ SubSeq(trace[p], Len(trace[p]) - 2, Len(trace[p]))
               = <<"r401", "post", "post_fail">>
        /\ ret[p].kind = "auth_error"
        /\ Gets(p) = 1

\* page k of the provider, and whether the loop is done with it
PageOf(k) == ServePage(feed, [per_page |-> PerPage, page |-> k])
Processed(k) ==
    \/ jpc = "fetching" /\ k < page
    \/ \E p \in JourneyProcs : Live(p) /\ k <= page

\* C19: getAllActivitiesAfter stops paging when the last element of page N
\* has start_date before `after`, even if page N is full; when page N is full
\* and its last element is at or after `after`, it requests page N + 1.
C19_StopOnOldPage ==
    \A k \in 1..requests :
        (Processed(k) /\ Len(PageOf(k)) > 0) =>
            LET last == PageOf(k)[Len(PageOf(k))].start_date
            IN /\ ActivityTimeLt(last, after) => requests = k
               /\ (Len(PageOf(k)) = PerPage /\ ActivityTimeGe(last, after))
                      => requests >= k + 1

\* the loop went on after a full page 1 and stopped at a full page 2 whose
\* last element is before `after`
C19_Witness ==
    /\ \E p \in JourneyProcs : Live(p)
    /\ requests = 2
    /\ Len(PageOf(1)) = PerPage
    /\ Len(PageOf(2)) = PerPage
    /\ ActivityTimeGe(PageOf(1)[PerPage].start_date, after)
    /\ ActivityTimeLt(PageOf(2)[PerPage].start_date, after)
    /\ Len(PageOf(3)) > 0

\* C20: for a provider that serves newest first, the sequence returned by
\* getAllActivitiesAfter holds every activity of the provider with start_date
\* at or after `after` that passes the type filter.
C20_NoTruncation ==
    \A p \in JourneyProcs :
        (Live(p) /\ NewestFirst(feed)) =>
            \A i \in 1..Len(feed) :
                (ActivityTimeGe(feed[i].start_date, after) /\ feed[i].type = "Ride")
                    => \E j \in 1..Len(result.activities) :
                           result.activities[j] = feed[i]

\* the loop returned early, on a full page, with pages left unrequested, and
\* what it returned spans more than one page
C20_Witness ==
    /\ \E p \in JourneyProcs : Live(p)
    /\ NewestFirst(feed)
    /\ requests = 2
    /\ Len(PageOf(2)) = PerPage
    /\ Len(PageOf(3)) > 0
    /\ Len(result.activities) > PerPage

\* what getAllActivitiesAfter has gathered so far, or returned
Accumulated ==
    IF \E p \in JourneyProcs : Live(p) THEN result.activities ELSE allActivities

C22_PagingTerminates ==
    /\ [](requests <= RequestBound)
    /\ <>(jpc = "done" /\ result.returned)

\* a history of full pages only: the loop returned on the empty page that
\* follows them, with the number of requests at its bound
C22_Witness ==
    /\ jpc = "done"
    /\ result.returned
    /\ Len(feed) >= 2 * PerPage
    /\ requests = RequestBound

\* the activities that pass the date filter and whose polyline decodes to at
\* least one point
Qualifying(acts, sd, d) ==
    SelectSeq(acts, LAMBDA a : /\ DateGe(a.start_date, sd)
                               /\ Len(DecodeWith(d, a.summary_polyline)) >= 1)
Occurrences(s, id) == Cardinality({ i \in 1..Len(s) : s[i].id = id })

\* C23: in the first variant of processActivities each feature's coordinates
\* are the decoded polyline of its activity, every (latitude, longitude)
\* swapped to (longitude, latitude), same length and order; and there is
\* exactly one feature for each activity that passes the date filter and has
\* a polyline decoding to at least one point.
C23_SwappedCoordinates ==
    (jpc = "processed" /\ variant = 1) =>
        LET q == Qualifying(mapActivities, startDate, decoder)
        IN /\ Len(journeyData) = Len(q)
           /\ \A a \in MapPool :
                  Occurrences(journeyData, a.id) = Occurrences(q, a.id)
           /\ \A i \in 1..Len(journeyData) :
                  \E k \in 1..Len(q) :
                     LET dec == DecodeWith(decoder, q[k].summary_polyline)
                         c == journeyData[i].coordinates
                     IN /\ q[k].id = journeyData[i].id
                        /\ Len(c) = Len(dec)
                        /\ \A j \in 1..Len(dec) :
                               c[j][1] = dec[j][2] /\ c[j][2] = dec[j][1]

\* two features out of three activities, one of them with two points whose
\* longitude differs from its latitude
C23_Witness ==
    /\ jpc = "processed"
    /\ variant = 1
    /\ decoder = "codec"
    /\ Len(mapActivities) = 3
    /\ Len(journeyData) = 2
    /\ \E i \in 1..2 :
           /\ Len(journeyData[i].coordinates) = 2
           /\ journeyData[i].coordinates[1] = <<0 - 12095000, 4070000>>
           /\ journeyData[i].coordinates[2] = <<0 - 12645300, 4325200>>

C25_NoGetWithoutToken ==
    \A p \in Procs :
        LET t == trace[p]
        IN (tok0[p] = Null /\ Len(t) > 0) =>
              /\ t[1] = "post"
              /\ Gets(p) > 0 =>
                     /\ t[2] = "post_ok"
                     /\ FirstIdx(t, "get") = 3
                     /\ hdr[p] # Null
              /\ (Len(t) >= 2 /\ t[2] = "post_fail") => Gets(p) = 0

\* a request that began with no token was answered after one exchange
C25_Witness ==
    \E p \in Procs :
        /\ tok0[p] = Null
        /\ trace[p] = <<"post", "post_ok", "get", "r200">>
        /\ hdr[p] # Null

\* C26: decodePolyline ends on every string, also one that stops inside a
\* value or after a latitude without a longitude: each do-while consumes at
\* least one character position, read past the end or not, and stops at the
\* first position past the end that it reads; so the decoded sequence is
\* finite, with at most one point for every two characters, and each point
\* is a pair of integers.
C26_DecodeTerminates ==
    /\ cpc \in {"encoded", "decoded"} =>
           \A i \in 1..(Len(encoded) + 1) :
               LET a == ReadValue(encoded, i, 0, 0)
               IN /\ a.index > i
                  /\ a.index <= Max(i, Len(encoded) + 1) + 1
                  /\ a.result \in Int
    /\ cpc = "decoded" =>
           /\ Len(decoded) <= CeilDiv(Len(encoded), 2)
           /\ Len(encoded) > 0 => Len(decoded) >= 1
           /\ \A j \in 1..Len(decoded) :
                  /\ Len(decoded[j]) = 2
                  /\ decoded[j][1] \in Int /\ decoded[j][2] \in Int

\* a string whose last character has its continuation bit set was decoded
C26_Witness ==
    /\ cpc = "decoded"
    /\ encoded = <<95, 112, 126>>
    /\ encoded[3] - 63 >= 32
    /\ Len(decoded) = 1

\* C27: when calculateBounds of a list is not null, every coordinate of every
\* feature of processActivities of that list lies inside the box (minLng <=
\* lng <= maxLng and minLat <= lat <= maxLat), and the box has minLng <=
\* maxLng and minLat <= maxLat.
C27_FeaturesInsideBounds ==
    (jpc = "processed" /\ bounds.called /\ ~bounds.isNull) =>
        LET minLng == bounds.box[1]
            minLat == bounds.box[2]
            maxLng == bounds.box[3]
            maxLat == bounds.box[4]
        IN /\ minLng <= maxLng
           /\ minLat <= maxLat
           /\ \A i \in 1..Len(journeyData) :
                  \A j \in 1..Len(journeyData[i].coordinates) :
                     LET lng == journeyData[i].coordinates[j][1]
                         lat == journeyData[i].coordinates[j][2]
                     IN /\ minLng <= lng /\ lng <= maxLng
                        /\ minLat <= lat /\ lat <= maxLat

\* two features, a point of one of them on the west side of the box, and the
\* south side of the box set by an end_latlng
C27_Witness ==
    /\ jpc = "processed"
    /\ bounds.called
    /\ ~bounds.isNull
    /\ Len(journeyData) = 2
    /\ \E i \in 1..2 : \E j \in 1..Len(journeyData[i].coordinates) :
           journeyData[i].coordinates[j][1] = bounds.box[1]
    /\ \E k \in 1..Len(mapActivities) :
           /\ Len(mapActivities[k].end_latlng) = 2
           /\ mapActivities[k].end_latlng[1] = bounds.box[2]
    /\ \A i \in 1..2 : \A j \in 1..Len(journeyData[i].coordinates) :
           journeyData[i].coordinates[j][2] > bounds.box[2]

====
